---- MODULE Spec2Model ----
\* A model of sappl/transform.py: thin wrappers that transpose their arrays and
\* delegate to librosa.  Every wrapper is a pure function; a state of the model is
\* one caller holding an input, the parameters of the calls, and the results
\* obtained so far.  The delegated routines are modelled by what they compute on
\* the modelled values (shapes, framing, flooring, clipping, error paths).
EXTENDS Integers, Sequences, FiniteSets, TLC

VARIABLES kind, inp, par, out

vars == <<kind, inp, par, out>>

\* ---------------------------------------------------------------- bounds
MaxLen == 5
MaxNfft == 5
MaxHop == 3
MaxCells == 3
MaxMels == 2

\* ------------------------------------------------- defaults of the callees
\* librosa.power_to_db(..., amin=1e-10, top_db=80.0): the floor as a power of ten
AminPowerExp == -10
\* librosa.amplitude_to_db(..., amin=1e-5, top_db=80.0)
AminAmpExp == -5
TopDb == 80

\* an optional argument: None, or Some(x)
None == <<>>
Some(x) == <<x>>

\* ---------------------------------------------------------------- arrays
\* A numpy array of one or two dimensions: [nd |-> 1, v |-> <<x1, ..>>] or
\* [nd |-> 2, v |-> <<row1, ..>>] (rows of equal length, at least one row).
Arr1(s) == [nd |-> 1, v |-> s]
Arr2(m) == [nd |-> 2, v |-> m]

Shape(a) == IF a.nd = 1 THEN <<Len(a.v)>> ELSE <<Len(a.v), Len(a.v[1])>>

\* ndarray.T : swaps the two axes of a 2-D array, leaves a 1-D array as it is
NpT(a) ==
  IF a.nd = 1 THEN a
  ELSE Arr2([j \in 1..Len(a.v[1]) |-> [i \in 1..Len(a.v) |-> a.v[i][j]]])

Entries(a) ==
  IF a.nd = 1 THEN {a.v[i] : i \in 1..Len(a.v)}
  ELSE {a.v[i][j] : i \in 1..Len(a.v), j \in 1..Len(a.v[1])}

\* elementwise application of fn, a function defined on the entries of a
ArrMap(fn, a) ==
  IF a.nd = 1 THEN Arr1([i \in 1..Len(a.v) |-> fn[a.v[i]]])
  ELSE Arr2([i \in 1..Len(a.v) |-> [j \in 1..Len(a.v[1]) |-> fn[a.v[i][j]]]])

\* results of a call: a value, or the exception that left the call
Ok(x) == [ok |-> TRUE, val |-> x]
Raise(e) == [ok |-> FALSE, err |-> e]

\* ---------------------------------------------------------------- stft
\* np.pad(y, (n_fft // 2, n_fft // 2), mode="constant")
PadCenter(y, n_fft) ==
  [i \in 1..(n_fft \div 2) |-> 0] \o y \o [i \in 1..(n_fft \div 2) |-> 0]

\* librosa.util.frame: the frames of length n_fft that fit, hop_length apart
RECURSIVE Frames(_, _, _, _)
Frames(y, n_fft, hop_length, start) ==
  IF start + n_fft > Len(y) THEN <<>>
  ELSE <<SubSeq(y, start + 1, start + n_fft)>>
         \o Frames(y, n_fft, hop_length, start + hop_length)

\* librosa.stft(y, n_fft, hop_length, win_length, center=True): (F, T), one
\* column per frame, one row per bin 0 .. n_fft // 2.  A coefficient is kept
\* symbolic: the frame it is computed from, the window length and its bin.
LibrosaStft(y, n_fft, hop_length, win_length) ==
  LET wl == IF win_length = None THEN n_fft ELSE win_length[1]
  IN  IF hop_length < 1 THEN Raise("ParameterError")
      ELSE IF wl < 0 THEN Raise("ValueError")
      ELSE IF wl > n_fft THEN Raise("ParameterError")
      ELSE IF n_fft = 0 THEN Raise("ValueError")
      ELSE LET fr == Frames(PadCenter(y, n_fft), n_fft, hop_length, 0)
           IN  Ok(Arr2([k \in 1..(1 + n_fft \div 2) |->
                        [t \in 1..Len(fr) |->
                          [frame |-> fr[t], win |-> wl, bin |-> k - 1]]]))

\* stft with the transposition forgotten: the (F, T) matrix is returned as it is
stft_NoTranspose(audio, n_fft, hop_length, win_length) ==
  LibrosaStft(audio, n_fft, hop_length, win_length)

stft(audio, n_fft, hop_length, win_length) ==
  LET stft_matrix == LibrosaStft(audio, n_fft, hop_length, win_length)
  IN  IF stft_matrix.ok THEN Ok(NpT(stft_matrix.val)) ELSE stft_matrix

\* ---------------------------------------------------------------- istft
\* istft that keeps the samples of the centring padding
LibrosaIstft_NoTrim(D, hop_length, win_length) ==
  IF D.nd < 2 THEN Raise("IndexError")
  ELSE LET n_fft == 2 * (Shape(D)[1] - 1)
           wl == IF win_length = None THEN n_fft ELSE win_length[1]
           n_frames == Shape(D)[2]
       IN  IF wl > n_fft THEN Raise("ParameterError")
           ELSE IF n_fft = 0 THEN Raise("ValueError")
           ELSE Ok([n_fft |-> n_fft,
                    len |-> n_fft + hop_length * (n_frames - 1)])

\* librosa.istft(D, hop_length, win_length, center=True, length=None) with D of
\* shape (F, T): n_fft = 2 * (F - 1); a window longer than n_fft is refused and
\* an inverse FFT of zero points (F = 1) raises; the signal has
\* n_fft + hop * (T - 1) samples less the n_fft // 2 of centring on each side.
LibrosaIstft(D, hop_length, win_length) ==
  IF D.nd < 2 THEN Raise("IndexError")
  ELSE LET n_fft == 2 * (Shape(D)[1] - 1)
           wl == IF win_length = None THEN n_fft ELSE win_length[1]
           n_frames == Shape(D)[2]
       IN  IF wl > n_fft THEN Raise("ParameterError")
           ELSE IF n_fft = 0 THEN Raise("ValueError")
           ELSE Ok([n_fft |-> n_fft,
                    len |-> n_fft + hop_length * (n_frames - 1)
                              - 2 * (n_fft \div 2)])

\* istft with the transposition forgotten: the (T, F) matrix is read as (F, T)
istft_NoTranspose(stft_matrix, hop_length, win_length) ==
  LibrosaIstft(stft_matrix, hop_length, win_length)

istft(stft_matrix, hop_length, win_length) ==
  LibrosaIstft(NpT(stft_matrix), hop_length, win_length)

\* ---------------------------------------------------------------- reals
\* The real numbers the conversions are exercised on: 0 and +/- 10^e, kept as
\* [s |-> sign, e |-> exponent]; on these log10 and the powers of ten are exact.
Zero == [s |-> 0, e |-> 0]
P10(e) == [s |-> 1, e |-> e]
Neg(a) == [a EXCEPT !.s = 0 - a.s]

Mul(a, b) ==
  IF a.s = 0 \/ b.s = 0 THEN Zero ELSE [s |-> a.s * b.s, e |-> a.e + b.e]

\* np.abs, np.square, ** 0.5 (on exact squares)
Abs(a) == [a EXCEPT !.s = a.s * a.s]
Square(a) == Mul(a, a)
Sqrt(a) == IF a.s = 0 THEN Zero ELSE [s |-> 1, e |-> a.e \div 2]

Less(a, b) ==
  IF a.s # b.s THEN a.s < b.s
  ELSE IF a.s = 1 THEN a.e < b.e
  ELSE IF a.s = -1 THEN a.e > b.e
  ELSE FALSE

\* np.maximum on two numbers
Maximum(a, b) == IF Less(a, b) THEN b ELSE a

\* np.log10 of a positive number
Log10(a) == a.e

SetMaxInt(S) == CHOOSE x \in S : \A y \in S : y <= x
SetMaxReal(S) == CHOOSE x \in S : \A y \in S : ~Less(x, y)

\* ref=np.max: the reference is computed from the array of the call
NpMax == [call |-> "np.max"]

\* ------------------------------------------------------- dB conversions
\* librosa.power_to_db(S, ref, amin, top_db): floors S and |ref| at amin,
\* takes 10 * log10 of the ratio, then clips top_db below the largest value.
\* amin is given by its exponent (amin = 10^amin_exp).
LibrosaPowerToDb(S, ref, amin_exp, top_db) ==
  LET magnitude == S
      ref_value == IF ref = NpMax THEN SetMaxReal(Entries(magnitude))
                   ELSE Abs(ref)
      amin == P10(amin_exp)
      Db(x) == 10 * Log10(Maximum(amin, x)) - 10 * Log10(Maximum(amin, ref_value))
      log_spec == ArrMap([x \in Entries(magnitude) |-> Db(x)], magnitude)
      peak == SetMaxInt(Entries(log_spec))
      Clip(d) == IF d < peak - top_db THEN peak - top_db ELSE d
  IN  Ok(ArrMap([x \in Entries(log_spec) |-> Clip(x)], log_spec))

\* librosa.db_to_power(S_db, ref) = ref * 10 ** (0.1 * S_db)
LibrosaDbToPower(S_db, ref) ==
  LET Pw(d) == Mul(ref, P10(d \div 10))
  IN  Ok(ArrMap([x \in Entries(S_db) |-> Pw(x)], S_db))

\* librosa.amplitude_to_db(S, ref, amin, top_db):
\* power_to_db(|S| ** 2, ref=|ref| ** 2, amin=amin ** 2, top_db)
LibrosaAmplitudeToDb(S, ref, amin_exp, top_db) ==
  LET magnitude == ArrMap([x \in Entries(S) |-> Abs(x)], S)
      ref_value == IF ref = NpMax THEN SetMaxReal(Entries(magnitude))
                   ELSE Abs(ref)
      power == ArrMap([x \in Entries(magnitude) |-> Square(x)], magnitude)
  IN  LibrosaPowerToDb(power, Square(ref_value), 2 * amin_exp, top_db)

\* librosa.db_to_amplitude(S_db, ref) = db_to_power(S_db, ref ** 2) ** 0.5
LibrosaDbToAmplitude(S_db, ref) ==
  LET power == LibrosaDbToPower(S_db, Square(ref)).val
  IN  Ok(ArrMap([x \in Entries(power) |-> Sqrt(x)], power))

db_to_power(spectrogram_db, ref) == LibrosaDbToPower(spectrogram_db, ref)

power_to_db(spectrogram, ref) ==
  LET r == LibrosaPowerToDb(NpT(spectrogram), ref, AminPowerExp, TopDb)
  IN  Ok(NpT(r.val))

amplitude_to_db(spectrogram_amplitude, ref) ==
  LET r == LibrosaAmplitudeToDb(NpT(spectrogram_amplitude), ref, AminAmpExp, TopDb)
  IN  Ok(NpT(r.val))

db_to_amplitude(spectrogram_db, ref) == LibrosaDbToAmplitude(spectrogram_db, ref)

\* ---------------------------------------------------------------- magphase
\* rationals n / d, reduced, d > 0
RECURSIVE Gcd(_, _)
Gcd(a, b) == IF b = 0 THEN a ELSE Gcd(b, a % b)
IAbs(n) == IF n < 0 THEN 0 - n ELSE n
Rat(n, d) ==
  LET g == Gcd(IAbs(n), IAbs(d))
      sg == IF d < 0 THEN -1 ELSE 1
  IN  <<(sg * n) \div g, (sg * d) \div g>>
RatAdd(a, b) == Rat(a[1] * b[2] + b[1] * a[2], a[2] * b[2])
RatMulInt(k, a) == Rat(k * a[1], a[2])

\* np.abs of a complex number whose modulus is an integer
CAbs(z) == CHOOSE r \in 0..(IAbs(z.re) + IAbs(z.im)) : r * r = z.re * z.re + z.im * z.im

\* magphase without the 1 added to the real part where the modulus is 0
LibrosaMagphase_NoGuard(D) ==
  LET Mag(z) == CAbs(z)
      Ph(z) == LET mag == CAbs(z)
                   zeros_to_ones == IF mag = 0 THEN 1 ELSE 0
                   mag_nonzero == mag + zeros_to_ones
               IN  [re |-> Rat(z.re, mag_nonzero), im |-> Rat(z.im, mag_nonzero)]
  IN  [mag |-> ArrMap([x \in Entries(D) |-> Mag(x)], D),
       phase |-> ArrMap([x \in Entries(D) |-> Ph(x)], D)]

\* librosa.magphase(D): mag = |D|; where mag is 0 the divisor is 1 and 1 is
\* added to the real part of the phase
LibrosaMagphase(D) ==
  LET Mag(z) == CAbs(z)
      Ph(z) == LET mag == CAbs(z)
                   zeros_to_ones == IF mag = 0 THEN 1 ELSE 0
                   mag_nonzero == mag + zeros_to_ones
               IN  [re |-> RatAdd(Rat(z.re, mag_nonzero), Rat(zeros_to_ones, 1)),
                    im |-> Rat(z.im, mag_nonzero)]
  IN  [mag |-> ArrMap([x \in Entries(D) |-> Mag(x)], D),
       phase |-> ArrMap([x \in Entries(D) |-> Ph(x)], D)]

magphase(stft_matrix) ==
  LET r == LibrosaMagphase(NpT(stft_matrix))
  IN  Ok([magnitude |-> NpT(r.mag), phase |-> NpT(r.phase)])

\* ------------------------------------------------------- mel spectrogram
\* An audio signal for the mel spectrogram: its length, its amplitude scale
\* and the two mel-band energies its unit-scale version alternates between.
\* The STFT power projected on the filterbank is homogeneous of degree two
\* in the signal, so the energies of the signal are gain^2 times the
\* unit-scale ones.
MelSamples(a) == [i \in 1..a.len |-> 1]

\* Python's `x or y` on an optional number: y when x is None or 0
PyOr(x, y) == IF x = None \/ x = Some(0) THEN y ELSE x[1]

\* librosa.feature.melspectrogram(y, sr, n_fft, hop_length, n_mels, fmin, fmax):
\* |stft|^2 of shape (F, T) projected on n_mels filters: (n_mels, T)
LibrosaMelspectrogram(a, sr, n_fft, hop_length, n_mels, fmin, fmax) ==
  LET S == LibrosaStft(MelSamples(a), n_fft, hop_length, None)
  IN  IF ~S.ok THEN S
      ELSE Ok(Arr2([m \in 1..n_mels |->
                    [t \in 1..Shape(S.val)[2] |->
                      Mul(Square(a.gain), a.env[((m + t) % 2) + 1])]]))

\* the dB conversion against a fixed reference of 1.0
compute_mel_spectrogram_FixedRef(a, sample_rate, n_fft, hop_length, n_mels, f_min, f_max) ==
  LET fmax == PyOr(f_max, sample_rate \div 2)
      mel_spectrogram ==
        LibrosaMelspectrogram(a, sample_rate, n_fft, hop_length, n_mels, f_min, fmax)
  IN  IF ~mel_spectrogram.ok THEN mel_spectrogram
      ELSE [ok |-> TRUE,
            val |-> NpT(LibrosaPowerToDb(mel_spectrogram.val, P10(0),
                                         AminPowerExp, TopDb).val),
            fmax |-> fmax]

\* the result forgets the transposition: (n_mels, T)
compute_mel_spectrogram_NoTranspose(a, sample_rate, n_fft, hop_length, n_mels, f_min, f_max) ==
  LET fmax == PyOr(f_max, sample_rate \div 2)
      mel_spectrogram ==
        LibrosaMelspectrogram(a, sample_rate, n_fft, hop_length, n_mels, f_min, fmax)
  IN  IF ~mel_spectrogram.ok THEN mel_spectrogram
      ELSE [ok |-> TRUE,
            val |-> LibrosaPowerToDb(mel_spectrogram.val, NpMax,
                                     AminPowerExp, TopDb).val,
            fmax |-> fmax]

\* the result carries, beside the dB matrix, the fmax handed to the filterbank
compute_mel_spectrogram(a, sample_rate, n_fft, hop_length, n_mels, f_min, f_max) ==
  LET fmax == PyOr(f_max, sample_rate \div 2)
      mel_spectrogram ==
        LibrosaMelspectrogram(a, sample_rate, n_fft, hop_length, n_mels, f_min, fmax)
  IN  IF ~mel_spectrogram.ok THEN mel_spectrogram
      ELSE [ok |-> TRUE,
            val |-> NpT(LibrosaPowerToDb(mel_spectrogram.val, NpMax,
                                         AminPowerExp, TopDb).val),
            fmax |-> fmax]

\* ---------------------------------------------------------------- inputs
RECURSIVE SeqsOf(_, _)
SeqsOf(S, n) ==
  IF n = 0 THEN {<<>>}
  ELSE {<<x>> \o s : x \in S, s \in SeqsOf(S, n - 1)}

Samples == {0, 1}
Audios == UNION {SeqsOf(Samples, n) : n \in 1..MaxLen}

\* FFT sizes: two invalid ones and every valid size up to the bound
NFfts == -1..MaxNfft
Hops == -1..MaxHop
WinLengths == {None, Some(1), Some(2), Some(MaxNfft), Some(MaxNfft + 1)}
StftPars == [n_fft : NFfts, hop_length : Hops, win_length : WinLengths]

\* matrices of shape (T, F) with at most MaxCells entries drawn from S
ShapesTF == {sh \in (1..MaxCells) \X (1..MaxCells) : sh[1] * sh[2] <= MaxCells}
MatricesOf(S) ==
  UNION {{Arr2(m) : m \in [1..sh[1] -> [1..sh[2] -> S]]} : sh \in ShapesTF}
VectorsOf(S) == UNION {{Arr1(v) : v \in [1..n -> S]} : n \in 1..MaxCells}

PowerVals == {Zero, P10(-12), P10(-9), P10(-4), P10(0)}
AmpVals == {Zero, P10(-6), P10(-4), P10(-2), P10(1)}
DbVals == {-100, -20, 0, 40}
Refs == {Neg(P10(0)), P10(-12), P10(0), P10(2)}
ComplexVals ==
  {[re |-> 0, im |-> 0], [re |-> 3, im |-> 4], [re |-> -4, im |-> 3],
   [re |-> 0, im |-> -5], [re |-> 1, im |-> 0]}

Gains == {P10(-3), P10(0), P10(2)}
EnvVals == {Zero, P10(-9), P10(-3), P10(0)}
MelAudios == [len : 1..MaxLen, gain : Gains, env : [1..2 -> EnvVals]]
MelPars ==
  [n_fft : NFfts, hop_length : Hops, n_mels : 1..MaxMels, sample_rate : {16000},
   f_min : {0}, f_max : {None, Some(0), Some(4000), Some(8000)}]

InitAudio ==
  /\ kind = "audio"
  /\ inp \in Audios
  /\ par \in StftPars
  /\ out = <<>>

InitVector ==
  /\ kind = "vector"
  /\ inp \in VectorsOf(ComplexVals)
  /\ par \in [hop_length : 1..MaxHop, win_length : {None}]
  /\ out = <<>>

InitComplex ==
  /\ kind = "complex"
  /\ inp \in MatricesOf(ComplexVals)
  /\ par = [ref |-> P10(0)]
  /\ out = <<>>

InitPower ==
  /\ kind = "power"
  /\ inp \in MatricesOf(PowerVals)
  /\ par \in [ref : Refs]
  /\ out = <<>>

InitAmp ==
  /\ kind = "amp"
  /\ inp \in MatricesOf(AmpVals)
  /\ par \in [ref : Refs]
  /\ out = <<>>

InitDb ==
  /\ kind \in {"db_power", "db_amp"}
  /\ inp \in MatricesOf(DbVals)
  /\ par \in [ref : Refs]
  /\ out = <<>>

InitMel ==
  /\ kind = "mel"
  /\ inp \in MelAudios
  /\ par \in MelPars
  /\ out = <<>>

Init ==
  InitAudio \/ InitVector \/ InitComplex \/ InitPower \/ InitAmp \/ InitDb \/ InitMel

\* ---------------------------------------------------------------- calls
\* Each action is one call of a public function; `out` collects the results.
Stft ==
  /\ kind = "audio"
  /\ out = <<>>
  /\ out' = <<stft(inp, par.n_fft, par.hop_length, par.win_length)>>
  /\ UNCHANGED <<kind, inp, par>>

\* istft of the matrix stft returned, with the same hop_length and win_length
IstftOfStft ==
  /\ kind = "audio"
  /\ Len(out) = 1
  /\ out[1].ok
  /\ out' = Append(out, istft(out[1].val, par.hop_length, par.win_length))
  /\ UNCHANGED <<kind, inp, par>>

\* istft of a one-dimensional array
IstftOfVector ==
  /\ kind = "vector"
  /\ out = <<>>
  /\ out' = <<istft(inp, par.hop_length, par.win_length)>>
  /\ UNCHANGED <<kind, inp, par>>

\* magphase of a one-dimensional array; the call is marked to tell its result
\* from that of istft on the same array
MagphaseOfVector ==
  /\ kind = "vector"
  /\ out = <<>>
  /\ kind' = "vector_magphase"
  /\ out' = <<magphase(inp)>>
  /\ UNCHANGED <<inp, par>>

Magphase ==
  /\ kind = "complex"
  /\ out = <<>>
  /\ out' = <<magphase(inp)>>
  /\ UNCHANGED <<kind, inp, par>>

PowerToDb ==
  /\ kind = "power"
  /\ out = <<>>
  /\ out' = <<power_to_db(inp, par.ref)>>
  /\ UNCHANGED <<kind, inp, par>>

\* db_to_power of a dB matrix, or of what power_to_db returned (same ref)
DbToPower ==
  /\ \/ kind = "db_power" /\ out = <<>> /\ out' = <<db_to_power(inp, par.ref)>>
     \/ /\ kind = "power" /\ Len(out) = 1
        /\ out' = Append(out, db_to_power(out[1].val, par.ref))
  /\ UNCHANGED <<kind, inp, par>>

AmplitudeToDb ==
  /\ kind = "amp"
  /\ out = <<>>
  /\ out' = <<amplitude_to_db(inp, par.ref)>>
  /\ UNCHANGED <<kind, inp, par>>

DbToAmplitude ==
  /\ \/ kind = "db_amp" /\ out = <<>> /\ out' = <<db_to_amplitude(inp, par.ref)>>
     \/ /\ kind = "amp" /\ Len(out) = 1
        /\ out' = Append(out, db_to_amplitude(out[1].val, par.ref))
  /\ UNCHANGED <<kind, inp, par>>

ComputeMelSpectrogram ==
  /\ kind = "mel"
  /\ out = <<>>
  /\ out' = <<compute_mel_spectrogram(inp, par.sample_rate, par.n_fft,
                par.hop_length, par.n_mels, par.f_min, par.f_max)>>
  /\ UNCHANGED <<kind, inp, par>>

Next ==
  \/ Stft
  \/ IstftOfStft
  \/ IstftOfVector
  \/ MagphaseOfVector
  \/ Magphase
  \/ PowerToDb
  \/ DbToPower
  \/ AmplitudeToDb
  \/ DbToAmplitude
  \/ ComputeMelSpectrogram

Spec == Init /\ [][Next]_vars

\* ================================================================ claims
\* the parameters the specification calls valid for stft
ValidStftPar(p) ==
  /\ p.n_fft > 0
  /\ p.hop_length > 0
  /\ p.win_length = None \/ p.win_length[1] <= p.n_fft

StftDone == kind = "audio" /\ Len(out) >= 1
IstftDone == kind = "audio" /\ Len(out) = 2

\* the frame count of a centred transform, in closed form
FrameCount(L, n_fft, hop_length) ==
  1 + (L + 2 * (n_fft \div 2) - n_fft) \div hop_length

InverseAccepts(n) ==
  /\ n > 0
  /\ par.win_length = None \/ par.win_length[1] <= n

\* C8 as claimed: whatever n_fft stft accepted, istft of its output succeeds
\* and inverts with that same n_fft.
C8_SameNfftForEveryNfft ==
  IstftDone => (out[2].ok /\ out[2].val.n_fft = par.n_fft)

\* C8 amended: istft infers n_fft = 2 * (F - 1) from the second axis of its
\* input; on the output of stft that is the forward n_fft when n_fft is even
\* (and then istft succeeds), and n_fft - 1 when n_fft is odd (and then istft
\* fails when that is 0 or win_length exceeds it).
C8_InferredNfft ==
  IstftDone =>
    /\ out[2].ok => out[2].val.n_fft = 2 * (Shape(out[1].val)[2] - 1)
    /\ par.n_fft % 2 = 0 => (out[2].ok /\ out[2].val.n_fft = par.n_fft)
    /\ (par.n_fft % 2 = 1 /\ out[2].ok) => out[2].val.n_fft = par.n_fft - 1
    /\ par.n_fft % 2 = 1 => (out[2].ok <=> InverseAccepts(par.n_fft - 1))

C8_Witness ==
  /\ IstftDone /\ out[2].ok
  /\ par.n_fft = 4 /\ out[2].val.n_fft = 4
  /\ Shape(out[1].val)[1] # Shape(out[1].val)[2]

\* C9 as claimed: T = 1 + floor(L / hop) and the round trip returns
\* hop * floor(L / hop) samples.
C9_FramesAndLength ==
  /\ (StftDone /\ out[1].ok) =>
       Shape(out[1].val)[1] = 1 + Len(inp) \div par.hop_length
  /\ (IstftDone /\ out[2].ok) =>
       out[2].val.len = par.hop_length * (Len(inp) \div par.hop_length)

\* C9 amended: istft of a T-frame matrix returns hop * (T - 1) samples.  For
\* even n_fft T = 1 + floor(L / hop) and the round trip succeeds with
\* hop * floor(L / hop) samples, never more than L and L exactly when hop
\* divides L.  For odd n_fft T = 1 + floor((L - 1) / hop); the round trip
\* fails when n_fft = 1 (the inferred size is 0) or win_length = n_fft, and
\* otherwise has hop * floor((L - 1) / hop) samples, fewer than L.
C9_FramesAndLengthByParity ==
  LET L == Len(inp)
      h == par.hop_length
  IN  /\ (StftDone /\ out[1].ok) =>
           Shape(out[1].val)[1] =
             IF par.n_fft % 2 = 0 THEN 1 + L \div h ELSE 1 + (L - 1) \div h
      /\ IstftDone =>
           /\ out[2].ok <=>
                \/ par.n_fft % 2 = 0
                \/ /\ par.n_fft >= 3
                   /\ par.win_length = None \/ par.win_length[1] < par.n_fft
           /\ par.n_fft = 1 => ~out[2].ok
           /\ out[2].ok =>
                /\ out[2].val.len = h * (Shape(out[1].val)[1] - 1)
                /\ out[2].val.len <= L
                /\ par.n_fft % 2 = 0 =>
                     /\ out[2].val.len = h * (L \div h)
                     /\ (out[2].val.len = L) <=> (L % h = 0)
                /\ par.n_fft % 2 = 1 =>
                     /\ out[2].val.len = h * ((L - 1) \div h)
                     /\ out[2].val.len < L

C9_Witness ==
  /\ IstftDone /\ out[2].ok
  /\ par.n_fft = 4 /\ par.hop_length = 2 /\ Len(inp) = 5
  /\ out[2].val.len = 4

\* C2: db_to_power(power_to_db(power, ref), ref) gives back every entry of a
\* spectrogram whose entries all exceed the floor, for every ref > 0, whatever
\* the ratio between its largest and smallest entries; likewise for
\* db_to_amplitude(amplitude_to_db(amp, ref), ref).
C2_RoundTrip ==
  /\ (kind = "power" /\ Len(out) = 2 /\ par.ref.s = 1
        /\ \A x \in Entries(inp) : Less(P10(AminPowerExp), x))
       => (out[2].ok /\ out[2].val = inp)
  /\ (kind = "amp" /\ Len(out) = 2 /\ par.ref.s = 1
        /\ \A x \in Entries(inp) : Less(P10(AminAmpExp), x))
       => (out[2].ok /\ out[2].val = inp)

\* C3: magphase returns magnitude and phase of the shape of its input, with
\* magnitude = |S| >= 0, magnitude * phase = S where S is nonzero and
\* phase = 1 + 0i where S is 0.
C3_Magphase ==
  (kind = "complex" /\ Len(out) = 1) =>
    /\ out[1].ok
    /\ Shape(out[1].val.magnitude) = Shape(inp)
    /\ Shape(out[1].val.phase) = Shape(inp)
    /\ \A t \in 1..Len(inp.v) : \A f \in 1..Len(inp.v[t]) :
         LET z == inp.v[t][f]
             m == out[1].val.magnitude.v[t][f]
             ph == out[1].val.phase.v[t][f]
         IN  /\ m >= 0
             /\ m * m = z.re * z.re + z.im * z.im
             /\ (z.re # 0 \/ z.im # 0) =>
                  /\ RatMulInt(m, ph.re) = Rat(z.re, 1)
                  /\ RatMulInt(m, ph.im) = Rat(z.im, 1)
             /\ (z.re = 0 /\ z.im = 0) =>
                  (ph.re = Rat(1, 1) /\ ph.im = Rat(0, 1))

C3_Witness ==
  /\ kind = "complex" /\ Len(out) = 1 /\ out[1].ok
  /\ Shape(inp) = <<1, 3>>
  /\ inp.v[1][1] = [re |-> 0, im |-> 0]
  /\ inp.v[1][2] = [re |-> -4, im |-> 3]
  /\ out[1].val.phase.v[1][1] = [re |-> <<1, 1>>, im |-> <<0, 1>>]
  /\ out[1].val.phase.v[1][2] = [re |-> <<-4, 5>>, im |-> <<3, 5>>]
  /\ out[1].val.magnitude.v[1][2] = 5

\* C4: every call with an invalid parameter (n_fft <= 0, hop_length <= 0,
\* win_length > n_fft, a negative ref, a wrongly shaped matrix given to
\* magphase or istft) fails; none returns a result.
C4_InvalidRejected ==
  /\ (kind = "audio" /\ Len(out) >= 1 /\ ~ValidStftPar(par)) => ~out[1].ok
  /\ (kind \in {"power", "amp", "db_power", "db_amp"} /\ Len(out) >= 1
        /\ par.ref.s = -1) => ~out[1].ok
  /\ (kind \in {"vector", "vector_magphase"} /\ Len(out) >= 1) => ~out[1].ok

MelDone == kind = "mel" /\ Len(out) = 1
MelPower(a) ==
  LibrosaMelspectrogram(a, par.sample_rate, par.n_fft, par.hop_length,
                        par.n_mels, par.f_min, par.f_max).val
MelDb(a) ==
  compute_mel_spectrogram(a, par.sample_rate, par.n_fft, par.hop_length,
                          par.n_mels, par.f_min, par.f_max).val
\* the audio multiplied by a nonzero constant
ScaleFactors == {P10(-4), P10(-1), Neg(P10(0)), P10(3)}
ScaleAudio(a, c) == [a EXCEPT !.gain = Mul(c, a.gain)]
HasEnergy(a) == \E x \in Entries(MelPower(a)) : x.s # 0
PeakIsZero ==
  /\ SetMaxInt(Entries(out[1].val)) = 0
  /\ \A d \in Entries(out[1].val) : d <= 0
\* the floor of power_to_db changes nothing: no energy lies below it, or
\* the largest one is top_db above it so that floored entries are clipped anyway
FloorInactive(a) ==
  \/ \A x \in Entries(MelPower(a)) : ~Less(x, P10(AminPowerExp))
  \/ ~Less(SetMaxReal(Entries(MelPower(a))), P10(AminPowerExp + TopDb \div 10))

\* C5 as claimed: for an input with nonzero energy the largest entry of the
\* result is 0 dB, none is positive, and scaling the audio by a nonzero
\* constant leaves the result unchanged.
C5_PeakZeroScaleInvariant ==
  (MelDone /\ out[1].ok /\ HasEnergy(inp)) =>
    /\ PeakIsZero
    /\ \A c \in ScaleFactors : MelDb(ScaleAudio(inp, c)) = out[1].val

\* C5 amended: the largest entry is 0 dB and none is positive; scaling the
\* audio by a nonzero constant leaves the result unchanged provided the floor
\* 1e-10 of the dB conversion is inactive before and after the scaling (every
\* mel energy is at least 1e-10, or the largest is at least 1e-2).
C5_PeakZeroScaleInvariantAboveFloor ==
  (MelDone /\ out[1].ok /\ HasEnergy(inp)) =>
    /\ PeakIsZero
    /\ \A c \in ScaleFactors :
         (FloorInactive(inp) /\ FloorInactive(ScaleAudio(inp, c)))
           => MelDb(ScaleAudio(inp, c)) = out[1].val

C5_Witness ==
  /\ MelDone /\ out[1].ok /\ HasEnergy(inp)
  /\ \E d \in Entries(out[1].val) : d = -60
  /\ inp.gain # P10(0)
  /\ FloorInactive(inp)
  /\ \E c \in ScaleFactors : c # Neg(P10(0)) /\ FloorInactive(ScaleAudio(inp, c))

\* C6: compute_mel_spectrogram returns a matrix of shape (T, n_mels), T the
\* row count of stft for the same audio, n_fft and hop_length (and it fails
\* exactly when that stft fails).
C6_MelShape ==
  MelDone =>
    LET S == stft(MelSamples(inp), par.n_fft, par.hop_length, None)
    IN  /\ out[1].ok <=> S.ok
        /\ out[1].ok =>
             /\ Shape(out[1].val) = <<Shape(S.val)[1], par.n_mels>>
             /\ Shape(out[1].val)[1] =
                  FrameCount(inp.len, par.n_fft, par.hop_length)

C6_Witness ==
  /\ MelDone /\ out[1].ok
  /\ par.n_mels = 2 /\ par.n_fft = 4 /\ par.hop_length = 2 /\ inp.len = 5
  /\ Shape(out[1].val) = <<3, 2>>

\* C7: the four conversions are shape-preserving and elementwise: the output
\* at (t, f) depends only on the input at (t, f) and on ref, so two inputs
\* that agree at (t, f) give the same output at (t, f).
SameAt(r, a, t, f) == r.ok /\ r.val.v[t][f] = a.v[t][f]
SameShapeInputs(S) == {m \in MatricesOf(S) : Shape(m) = Shape(inp)}
C7_Elementwise ==
  (kind \in {"power", "amp", "db_power", "db_amp"} /\ Len(out) >= 1) =>
    /\ Shape(out[1].val) = Shape(inp)
    /\ \A t \in 1..Len(inp.v) : \A f \in 1..Len(inp.v[t]) :
         /\ kind = "power" =>
              \A m \in SameShapeInputs(PowerVals) : m.v[t][f] = inp.v[t][f] =>
                SameAt(power_to_db(m, par.ref), out[1].val, t, f)
         /\ kind = "amp" =>
              \A m \in SameShapeInputs(AmpVals) : m.v[t][f] = inp.v[t][f] =>
                SameAt(amplitude_to_db(m, par.ref), out[1].val, t, f)
         /\ kind = "db_power" =>
              \A m \in SameShapeInputs(DbVals) : m.v[t][f] = inp.v[t][f] =>
                SameAt(db_to_power(m, par.ref), out[1].val, t, f)
         /\ kind = "db_amp" =>
              \A m \in SameShapeInputs(DbVals) : m.v[t][f] = inp.v[t][f] =>
                SameAt(db_to_amplitude(m, par.ref), out[1].val, t, f)

\* C10: the filterbank's upper frequency is sample_rate / 2 when f_max is None
\* and the caller's f_max, unchanged, for every f_max the caller supplies.
C10_FmaxPassedThrough ==
  (MelDone /\ out[1].ok) =>
    out[1].fmax = IF par.f_max = None THEN par.sample_rate \div 2 ELSE par.f_max[1]
====
